---- MODULE Spec2Model ----
(***************************************************************************)
(* BenkhardJenkinsStack (lib/benkhard-jenkins-stack.ts).                   *)
(*                                                                         *)
(* The stack's constructor runs once per provisioning run and builds, one  *)
(* statement after the other, the description of the resources (phase      *)
(* "synth").  A statement that throws ends the constructor: nothing later  *)
(* runs and nothing is deployed.  The finished description is then handed  *)
(* to the provisioning engine (phase "deploy"), which creates or updates   *)
(* each declared resource once all the resources it refers to are done,    *)
(* in any order that respects those references: the constructor adds no    *)
(* explicit dependency anywhere.  A resource whose description equals the  *)
(* one already deployed is left alone.  A resource the platform rejects    *)
(* ends the run as failed; what was provisioned before stays, and the next *)
(* run picks up from there.                                                *)
(*                                                                         *)
(* What the construct library hands back to the constructor (the log       *)
(* options of the generated container, the children of the service         *)
(* construct, the roles of the generated task definition) is the input of  *)
(* a run.  Spec takes the inputs the library produces for this stack;      *)
(* SpecOpen leaves open every result the constructor itself treats as      *)
(* optional (the ?. lookups) and the task role.                            *)
(***************************************************************************)
EXTENDS Integers, Sequences, FiniteSets, TLC

\* Number of provisioning runs against the same target.
MaxRuns == 3
\* Number of distinct log option sets the library may generate over the runs.
MaxLogOptions == 2

VARIABLES
  run,                  \* number of runs started
  phase,                \* "idle", "synth", "deploy", "success", "failed"
  pc,                   \* the constructor's next statement
  failedAt,             \* the statement that threw or the resource that was rejected
  lib,                  \* this run's inputs
  declared,             \* resources declared so far by the constructor
  published,            \* configuration entries declared (lines 23-33)
  taskDefinition,       \* loadBalancerFargateService.taskDefinition
  children,             \* ids of the children of loadBalancerFargateService.service.node
  json,                 \* customTaskDefinitionJson
  customTaskDefinition, \* the custom resource's onCreate / onUpdate
  statements,           \* policy statements of customTaskDefinition.grantPrincipal
  rules,                \* connection rules between service and file system
  serviceTaskDefinition,\* the service's TaskDefinition property
  healthCheckPath,
  done,                 \* resources the engine has gone through in this run
  touched,              \* resources the engine created or updated in this run
  deployed,             \* per resource, the description last provisioned
  revisions,            \* revisions registered by the custom resource, oldest first
  nextRevision,         \* the platform's revision counter of the family
  placeholderArn,       \* revision of the generated task definition
  physicalResourceId,   \* the custom resource's physical id
  responseArn,          \* getResponseField("taskDefinition.taskDefinitionArn")
  liveTaskDefinition,   \* the revision the running service references
  prevLib, prevOk       \* inputs of the last run that deployed, and whether it succeeded

synthVars ==
  <<declared, published, taskDefinition, children, json, customTaskDefinition,
    statements, rules, serviceTaskDefinition, healthCheckPath>>

cloudVars ==
  <<deployed, revisions, nextRevision, placeholderArn, physicalResourceId,
    responseArn, liveTaskDefinition>>

vars ==
  <<run, phase, pc, failedAt, lib, synthVars, done, touched, cloudVars, prevLib, prevOk>>

\* lines 79-82
image == "jenkins/jenkins"
cpu == 256
memoryLimit == 1024
containerPort == 8080
\* line 88
desiredCount == 1
\* lines 166-167
efsPort == 2049

\* An absent value (undefined) is the empty set, a present one a singleton.
Some(x) == {x}
None == {}
The(s) == CHOOSE x \in s : TRUE

RoleArn(r) == <<"arn:aws:iam::role", r>>

\* lines 48-59
accessPoint ==
  [ createAcl |-> [ownerGid |-> "1000", ownerUid |-> "1000", permissions |-> "777"],
    path |-> "/jenkins",
    posixUser |-> [gid |-> "1000", uid |-> "1000"] ]

\* lines 41-46
fileSystem ==
  [ fileSystemName |-> "jenkins-fs", encrypted |-> TRUE,
    performanceMode |-> "generalPurpose", accessPoint |-> accessPoint ]

\* lines 61-71
efsVolume ==
  [ name |-> "efs",
    efsVolumeConfiguration |->
      [ fileSystemId |-> "JenkinsEfsFileSystem.fileSystemId",
        rootDirectory |-> "/",
        transitEncryption |-> "ENABLED",
        authorizationConfig |-> [accessPointId |-> "JenkinsAccessPoint.accessPointId"] ] ]

\* lines 73-77
jenkinsEfsMountPoint ==
  [ containerPath |-> "/var/jenkins_home", sourceVolume |-> efsVolume.name,
    readOnly |-> FALSE ]

\* The inputs of a run: what the construct library returns to the constructor.
LibInputs ==
  [ logOptions : 1..MaxLogOptions,
    serviceChildren : {{"Service"}},
    executionRole : {Some("executionRole")},
    taskRole : {Some("taskRole")} ]

\* Every result the constructor treats as optional, and the task role, left
\* open; the log options held fixed.
OpenLibInputs ==
  [ logOptions : {1},
    serviceChildren : {{"Service"}, {"Resource"}},
    executionRole : {Some("executionRole"), None},
    taskRole : {Some("taskRole"), None} ]

NoLib ==
  [ logOptions |-> 0, serviceChildren |-> {}, executionRole |-> None, taskRole |-> None ]

\* lines 84-97: the task definition the pattern generates from its props.
PlaceholderTaskDefinition(l) ==
  [ containers |->
      << [ essential |-> TRUE,
           image |-> image,
           logDriverConfig |-> [logDriver |-> "awslogs", options |-> l.logOptions],
           containerName |-> "web",
           mountPoints |-> << >>,
           portMappings |-> << [containerPort |-> containerPort, protocol |-> "tcp"] >> ] >>,
    cpu |-> cpu,
    memoryLimitMiB |-> memoryLimit,
    executionRole |-> l.executionRole,
    taskRole |-> l.taskRole,
    family |-> "JenkinsServiceTaskDef",
    networkMode |-> "awsvpc",
    compatibility |-> <<"FARGATE">> ]

\* taskDefinition.defaultContainer
defaultContainer(td) == IF td.containers = << >> THEN None ELSE Some(td.containers[1])

\* A port mapping that names a host port as well.
portMappingsWithHostPort ==
  << [containerPort |-> containerPort, hostPort |-> 80, protocol |-> "tcp"] >>

\* lines 115-120
portMappings == << [containerPort |-> containerPort, protocol |-> "tcp"] >>

\* lines 99-131
customTaskDefinitionJson(td) ==
  [ containerDefinitions |->
      << [ essential |-> TRUE,
           image |-> image,
           logConfiguration |->
             [ logDriver |-> {c.logDriverConfig.logDriver : c \in defaultContainer(td)},
               options |-> {c.logDriverConfig.options : c \in defaultContainer(td)} ],
           memory |-> memoryLimit,
           mountPoints |-> <<jenkinsEfsMountPoint>>,
           name |-> {c.containerName : c \in defaultContainer(td)},
           portMappings |-> portMappings ] >>,
    cpu |-> cpu,
    executionRoleArn |-> {RoleArn(r) : r \in td.executionRole},
    family |-> td.family,
    memory |-> memoryLimit,
    networkMode |-> "awsvpc",
    requiresCompatibilities |-> <<"FARGATE">>,
    taskRoleArn |-> {RoleArn(r) : r \in td.taskRole},
    volumes |-> <<efsVolume>> ]

\* The call with a per-run value among its fields.
createOrUpdateStamped(descriptor) ==
  [ service |-> "ECS",
    action |-> "registerTaskDefinition",
    outputPath |-> "taskDefinition.taskDefinitionArn",
    parameters |-> descriptor,
    physicalResourceId |-> "fromResponse:taskDefinition.taskDefinitionArn",
    stamp |-> run ]

\* lines 133-141
createOrUpdateCustomTaskDefinition(descriptor) ==
  [ service |-> "ECS",
    action |-> "registerTaskDefinition",
    outputPath |-> "taskDefinition.taskDefinitionArn",
    parameters |-> descriptor,
    physicalResourceId |-> "fromResponse:taskDefinition.taskDefinitionArn" ]

\* An update call whose physical id is a fixed name, not the response's ARN.
onUpdateWithFixedId(descriptor) ==
  [ service |-> "ECS",
    action |-> "registerTaskDefinition",
    outputPath |-> "taskDefinition.taskDefinitionArn",
    parameters |-> descriptor,
    physicalResourceId |-> "of:CustomFargateTaskDefinition" ]

\* line 148
onUpdateCall(descriptor) == createOrUpdateCustomTaskDefinition(descriptor)

\* lines 143-153
AwsCustomResource(descriptor) ==
  [ onCreate |-> createOrUpdateCustomTaskDefinition(descriptor),
    onUpdate |-> onUpdateCall(descriptor) ]

\* customTaskDefinition.grantPrincipal: the principal that makes the calls.
grantPrincipal == "customTaskDefinition.grantPrincipal"

\* lines 149-151: the policy the custom resource's principal gets for its calls.
SdkCallStatement ==
  [action |-> "ecs:RegisterTaskDefinition", resource |-> <<"*">>, principal |-> grantPrincipal]

\* role.grantPassRole(customTaskDefinition.grantPrincipal)
PassRoleStatement(r) ==
  [action |-> "iam:PassRole", resource |-> RoleArn(r), principal |-> grantPrincipal]

\* line 166: connections.allowFrom(fileSystem, Port.tcp(2049))
AllowFromRule == [from |-> "fileSystem", to |-> "service", protocol |-> "tcp", port |-> efsPort]
\* line 167: connections.allowTo(fileSystem, Port.tcp(2049))
AllowToRule == [from |-> "service", to |-> "fileSystem", protocol |-> "tcp", port |-> efsPort]

Resources ==
  {"Cluster", "FileSystem", "Topology", "Policy", "Register", "RuleFrom", "RuleTo", "Service"}

Init ==
  /\ run = 0 /\ phase = "idle" /\ pc = "none" /\ failedAt = "none"
  /\ lib = NoLib
  /\ declared = {} /\ published = {}
  /\ taskDefinition = None /\ children = {} /\ json = None
  /\ customTaskDefinition = None
  /\ statements = {} /\ rules = {}
  /\ serviceTaskDefinition = "none" /\ healthCheckPath = "/"
  /\ done = {} /\ touched = {}
  /\ deployed = [r \in Resources |-> None]
  /\ revisions = << >> /\ nextRevision = 1
  /\ placeholderArn = 0 /\ physicalResourceId = 0 /\ responseArn = 0
  /\ liveTaskDefinition = 0
  /\ prevLib = NoLib /\ prevOk = FALSE


\* A statement of the constructor throws: the constructor ends there.
Throws(step) ==
  /\ phase' = "failed" /\ failedAt' = step
  /\ UNCHANGED <<run, pc, lib, synthVars, done, touched, cloudVars, prevLib, prevOk>>

\* The constructor moves on to statement next.
Goto(next) ==
  /\ pc' = next
  /\ UNCHANGED <<run, phase, failedAt, lib, done, touched, cloudVars, prevLib, prevOk>>

At(step) == phase = "synth" /\ pc = step

\* The constructor's statements in program order; "done" once it has returned.
Statements ==
  << "cluster", "params", "lookups", "fileSystem", "service", "derive", "customResource",
     "grantExec", "grantTask", "allowFrom", "allowTo", "override", "healthCheck", "done" >>

Position(step) == CHOOSE i \in 1..Len(Statements) : Statements[i] = step

\* The constructor has executed statement step without throwing.
Past(step) == pc \in {Statements[i] : i \in (Position(step) + 1)..Len(Statements)}

\* bin: new BenkhardJenkinsStack(app, 'BenkhardJenkinsStack') on a fresh app.
StartRun(l) ==
  /\ phase \in {"idle", "success", "failed"}
  /\ run < MaxRuns
  /\ run' = run + 1 /\ phase' = "synth" /\ pc' = "cluster" /\ failedAt' = "none"
  /\ lib' = l
  /\ declared' = {} /\ published' = {}
  /\ taskDefinition' = None /\ children' = {} /\ json' = None
  /\ customTaskDefinition' = None
  /\ statements' = {} /\ rules' = {}
  /\ serviceTaskDefinition' = "none" /\ healthCheckPath' = "/"
  /\ done' = {} /\ touched' = {}
  /\ UNCHANGED <<cloudVars, prevLib, prevOk>>

\* lines 17-21
NewCluster ==
  /\ At("cluster")
  /\ \E throws \in BOOLEAN :
       IF throws THEN Throws("cluster")
       ELSE /\ declared' = declared \cup {"Cluster"}
            /\ Goto("params")
            /\ UNCHANGED <<published, taskDefinition, children, json, customTaskDefinition,
                           statements, rules, serviceTaskDefinition, healthCheckPath>>

\* lines 23-33
NewParameters ==
  /\ At("params")
  /\ \E throws \in BOOLEAN :
       IF throws THEN Throws("params")
       ELSE /\ published' = { [parameterName |-> "/com/benkhard/platform-cluster-arn",
                               stringValue |-> "clusterArn"],
                              [parameterName |-> "/com/benkhard/platform-cluster-name",
                               stringValue |-> "clusterName"] }
            /\ Goto("lookups")
            /\ UNCHANGED <<declared, taskDefinition, children, json, customTaskDefinition,
                           statements, rules, serviceTaskDefinition, healthCheckPath>>

\* lines 35-39
Lookups ==
  /\ At("lookups")
  /\ \E throws \in BOOLEAN :
       IF throws THEN Throws("lookups")
       ELSE Goto("fileSystem") /\ UNCHANGED synthVars

\* lines 41-59
NewFileSystem ==
  /\ At("fileSystem")
  /\ \E throws \in BOOLEAN :
       IF throws THEN Throws("fileSystem")
       ELSE /\ declared' = declared \cup {"FileSystem"}
            /\ Goto("service")
            /\ UNCHANGED <<published, taskDefinition, children, json, customTaskDefinition,
                           statements, rules, serviceTaskDefinition, healthCheckPath>>

\* lines 84-97: the pattern declares the load balancer, the task definition
\* and the service, which starts out referring to that task definition.
NewLoadBalancedService ==
  /\ At("service")
  /\ \E throws \in BOOLEAN :
       IF throws THEN Throws("service")
       ELSE /\ declared' = declared \cup {"Topology", "Service"}
            /\ taskDefinition' = Some(PlaceholderTaskDefinition(lib))
            /\ children' = lib.serviceChildren
            /\ serviceTaskDefinition' = "placeholder"
            /\ Goto("derive")
            /\ UNCHANGED <<published, json, customTaskDefinition, statements, rules,
                           healthCheckPath>>

\* The task role read with ?. as the execution role is.
DeriveGuarded ==
  /\ At("derive")
  /\ json' = Some(customTaskDefinitionJson(The(taskDefinition)))
  /\ Goto("customResource")
  /\ UNCHANGED <<declared, published, taskDefinition, children, customTaskDefinition,
                 statements, rules, serviceTaskDefinition, healthCheckPath>>

\* lines 99-131: reading taskRole.roleArn (line 129) of an absent task role
\* throws.
Derive ==
  /\ At("derive")
  /\ IF The(taskDefinition).taskRole = None THEN Throws("derive")
     ELSE /\ json' = Some(customTaskDefinitionJson(The(taskDefinition)))
          /\ Goto("customResource")
          /\ UNCHANGED <<declared, published, taskDefinition, children, customTaskDefinition,
                         statements, rules, serviceTaskDefinition, healthCheckPath>>

\* lines 133-155
NewCustomResource ==
  /\ At("customResource")
  /\ \E throws \in BOOLEAN :
       IF throws THEN Throws("customResource")
       ELSE /\ customTaskDefinition' = Some(AwsCustomResource(The(json)))
            /\ declared' = declared \cup {"Register", "Policy"}
            /\ statements' = statements \cup {SdkCallStatement}
            /\ Goto("grantExec")
            /\ UNCHANGED <<published, taskDefinition, children, json, rules,
                           serviceTaskDefinition, healthCheckPath>>

\* lines 157-159: executionRole?.grantPassRole(grantPrincipal)
ExecutionRoleGrant(td) == {PassRoleStatement(r) : r \in td.executionRole}

\* The execution role's grant called without ?. as the task role's is.
GrantExecutionRoleUnguarded ==
  /\ At("grantExec")
  /\ \E throws \in BOOLEAN :
       IF throws \/ The(taskDefinition).executionRole = None THEN Throws("grantExec")
       ELSE /\ statements' = statements \cup ExecutionRoleGrant(The(taskDefinition))
            /\ Goto("grantTask")
            /\ UNCHANGED <<declared, published, taskDefinition, children, json,
                           customTaskDefinition, rules, serviceTaskDefinition,
                           healthCheckPath>>

GrantExecutionRole ==
  /\ At("grantExec")
  /\ \E throws \in BOOLEAN :
       IF throws /\ The(taskDefinition).executionRole # None THEN Throws("grantExec")
       ELSE /\ statements' = statements \cup ExecutionRoleGrant(The(taskDefinition))
            /\ Goto("grantTask")
            /\ UNCHANGED <<declared, published, taskDefinition, children, json,
                           customTaskDefinition, rules, serviceTaskDefinition,
                           healthCheckPath>>

\* lines 160-162: taskRole.grantPassRole(grantPrincipal); the call is not
\* guarded, so it throws on an absent task role.
TaskRoleGrant(td) == {PassRoleStatement(r) : r \in td.taskRole}

GrantTaskRole ==
  /\ At("grantTask")
  /\ \E throws \in BOOLEAN :
       IF throws \/ The(taskDefinition).taskRole = None THEN Throws("grantTask")
       ELSE /\ statements' = statements \cup TaskRoleGrant(The(taskDefinition))
            /\ Goto("allowFrom")
            /\ UNCHANGED <<declared, published, taskDefinition, children, json,
                           customTaskDefinition, rules, serviceTaskDefinition,
                           healthCheckPath>>

\* line 166
AllowFrom ==
  /\ At("allowFrom")
  /\ \E throws \in BOOLEAN :
       IF throws THEN Throws("allowFrom")
       ELSE /\ rules' = rules \cup {AllowFromRule}
            /\ declared' = declared \cup {"RuleFrom"}
            /\ Goto("allowTo")
            /\ UNCHANGED <<published, taskDefinition, children, json, customTaskDefinition,
                           statements, serviceTaskDefinition, healthCheckPath>>

\* allowFrom written twice.
AllowFromAgain == {AllowFromRule}

\* line 167
AllowToDeclared == {AllowToRule}

AllowTo ==
  /\ At("allowTo")
  /\ \E throws \in BOOLEAN :
       IF throws THEN Throws("allowTo")
       ELSE /\ rules' = rules \cup AllowToDeclared
            /\ declared' = declared \cup {"RuleTo"}
            /\ Goto("override")
            /\ UNCHANGED <<published, taskDefinition, children, json, customTaskDefinition,
                           statements, serviceTaskDefinition, healthCheckPath>>

\* node.tryFindChild(id)
tryFindChild(ids, id) == IF id \in ids THEN Some(id) ELSE None

\* The override left out.
PropertyOverrideLeftOut(found, current) == current

\* The override applied whatever the lookup returned.
PropertyOverrideUnguarded(found, current) == "custom"

\* lines 175-180: tryFindChild("Service")?.addPropertyOverride("TaskDefinition", ...)
PropertyOverride(found, current) == IF found = None THEN current ELSE "custom"

OverrideTaskDefinition ==
  /\ At("override")
  /\ \E throws \in BOOLEAN :
       IF throws /\ tryFindChild(children, "Service") # None THEN Throws("override")
       ELSE /\ serviceTaskDefinition' =
                 PropertyOverride(tryFindChild(children, "Service"), serviceTaskDefinition)
            /\ Goto("healthCheck")
            /\ UNCHANGED <<declared, published, taskDefinition, children, json,
                           customTaskDefinition, statements, rules, healthCheckPath>>

\* lines 182-184; the constructor returns and the description goes to the engine.
ConfigureHealthCheck ==
  /\ At("healthCheck")
  /\ \E throws \in BOOLEAN :
       IF throws THEN Throws("healthCheck")
       ELSE /\ healthCheckPath' = "/login"
            /\ phase' = "deploy" /\ pc' = "done"
            /\ UNCHANGED <<run, failedAt, lib, done, touched, cloudVars, prevLib, prevOk>>
            /\ UNCHANGED <<declared, published, taskDefinition, children, json,
                           customTaskDefinition, statements, rules, serviceTaskDefinition>>


(***************************************************************************)
(* The provisioning engine.                                                *)
(***************************************************************************)

\* What the service's TaskDefinition property resolves to: the generated task
\* definition's revision, or after the override (line 179) the response field
\* of the custom resource.
ResolvedTaskDefinition ==
  IF serviceTaskDefinition = "custom" THEN responseArn ELSE placeholderArn

\* The description of each resource as the constructor declared it.
Description(r) ==
  CASE r = "Cluster" ->
         [kind |-> r, clusterName |-> "jenkins-cluster", parameters |-> published]
    [] r = "FileSystem" -> [kind |-> r, fileSystem |-> fileSystem]
    [] r = "Topology" ->
         [kind |-> r, taskDefinition |-> taskDefinition, domainName |-> "jenkins.benkhard.com",
          healthCheckPath |-> healthCheckPath]
    [] r = "Policy" -> [kind |-> r, statements |-> statements]
    [] r = "Register" -> [kind |-> r, calls |-> customTaskDefinition]
    [] r = "RuleFrom" -> [kind |-> r, rule |-> rules \cap {AllowFromRule}]
    [] r = "RuleTo" -> [kind |-> r, rule |-> rules \cap {AllowToRule}]
    [] r = "Service" ->
         [kind |-> r, cluster |-> "jenkins-cluster", desiredCount |-> desiredCount,
          taskDefinition |-> ResolvedTaskDefinition]

\* What the service refers to: its cluster, the resources the pattern built
\* around it and, once overridden (line 179), the custom resource's response.
ServiceDependsOn ==
  {"Cluster", "Topology"}
    \cup (IF serviceTaskDefinition = "custom" THEN {"Register"} ELSE {})

\* The resources whose attributes a resource's description refers to.  The
\* service refers to the custom resource only through the overridden property
\* (line 179); the principal's policy is in place before the principal's first
\* call (lines 149-162); nothing refers to the connection rules (lines 166-167).
DependsOn(r) ==
  CASE r = "Cluster" -> {}
    [] r = "FileSystem" -> {}
    [] r = "Topology" -> {"Cluster"}
    [] r = "Policy" -> {"Topology"}
    [] r = "Register" -> {"Policy", "Topology", "FileSystem"}
    [] r = "RuleFrom" -> {"FileSystem", "Topology"}
    [] r = "RuleTo" -> {"FileSystem", "Topology"}
    [] r = "Service" -> ServiceDependsOn

Ready(r) ==
  /\ phase = "deploy"
  /\ r \in declared \ done
  /\ DependsOn(r) \cap declared \subseteq done

Changed(r) == deployed[r] # Some(Description(r))

Provisioned(r) ==
  /\ deployed' = [deployed EXCEPT ![r] = Some(Description(r))]
  /\ done' = done \cup {r}
  /\ touched' = touched \cup {r}

\* A resource whose description is the deployed one is left alone.
LeaveUnchanged(r) ==
  /\ Ready(r) /\ ~Changed(r)
  /\ done' = done \cup {r}
  /\ UNCHANGED <<run, phase, pc, failedAt, lib, synthVars, touched, cloudVars, prevLib,
                 prevOk>>

\* The platform rejects a resource: the run ends failed.
Reject(r) ==
  /\ Ready(r) /\ Changed(r)
  /\ phase' = "failed" /\ failedAt' = r
  /\ prevLib' = lib /\ prevOk' = FALSE
  /\ UNCHANGED <<run, pc, lib, synthVars, done, touched, cloudVars>>

\* Cluster with its two parameters, file system with its access point, the
\* principal's policy, the two connection rules.
Provision(r) ==
  /\ r \in {"Cluster", "FileSystem", "Policy", "RuleFrom", "RuleTo"}
  /\ Ready(r) /\ Changed(r)
  /\ Provisioned(r)
  /\ UNCHANGED <<run, phase, pc, failedAt, lib, synthVars, prevLib, prevOk>>
  /\ UNCHANGED <<revisions, nextRevision, placeholderArn, physicalResourceId,
                 responseArn, liveTaskDefinition>>

\* The load-balanced service's supporting resources; a new or changed task
\* definition is a new revision of the family.
ProvisionTopology ==
  /\ Ready("Topology") /\ Changed("Topology")
  /\ Provisioned("Topology")
  /\ placeholderArn' = nextRevision
  /\ nextRevision' = nextRevision + 1
  /\ UNCHANGED <<run, phase, pc, failedAt, lib, synthVars, prevLib, prevOk>>
  /\ UNCHANGED <<revisions, physicalResourceId, responseArn, liveTaskDefinition>>

\* The statements deployed for the custom resource's principal.
DeployedStatements == UNION {d.statements : d \in deployed["Policy"]}

\* registerTaskDefinition needs the call itself allowed and every role the
\* descriptor names passable by the caller.
MayRegister(call) ==
  /\ \E st \in DeployedStatements :
       st.principal = grantPrincipal /\ st.action = "ecs:RegisterTaskDefinition"
  /\ \A arn \in call.parameters.executionRoleArn \cup call.parameters.taskRoleArn :
       \E st \in DeployedStatements :
         st.principal = grantPrincipal /\ st.action = "iam:PassRole" /\ st.resource = arn

\* The call the custom resource makes for an event (lines 147-148).
CallFor(event) ==
  IF event = "Create" THEN The(customTaskDefinition).onCreate
  ELSE The(customTaskDefinition).onUpdate

\* PhysicalResourceId.fromResponse(...) (lines 138-140)
PhysicalIdOf(call, arn, old) ==
  IF call.physicalResourceId = "fromResponse:taskDefinition.taskDefinitionArn" THEN arn ELSE old

\* The custom resource: Create the first time, Update when its calls changed.
\* A call refused for want of a permission ends the run failed.
RegisterTaskDefinition ==
  /\ Ready("Register") /\ Changed("Register")
  /\ LET event == IF deployed["Register"] = None THEN "Create" ELSE "Update"
         call == CallFor(event)
         arn == nextRevision
     IN IF call.action = "registerTaskDefinition" /\ MayRegister(call)
        THEN /\ revisions' = Append(revisions,
                               [arn |-> arn, event |-> event, descriptor |-> call.parameters])
             /\ nextRevision' = nextRevision + 1
             /\ physicalResourceId' = PhysicalIdOf(call, arn, physicalResourceId)
             /\ responseArn' = IF call.outputPath = "taskDefinition.taskDefinitionArn"
                               THEN arn ELSE responseArn
             /\ Provisioned("Register")
             /\ UNCHANGED <<run, phase, pc, failedAt, lib, synthVars, prevLib, prevOk>>
             /\ UNCHANGED <<placeholderArn, liveTaskDefinition>>
        ELSE /\ phase' = "failed" /\ failedAt' = "Register"
             /\ prevLib' = lib /\ prevOk' = FALSE
             /\ UNCHANGED <<run, pc, lib, synthVars, done, touched, cloudVars>>

\* The service is created with, or updated to, the revision its property names.
ProvisionService ==
  /\ Ready("Service") /\ Changed("Service")
  /\ Provisioned("Service")
  /\ liveTaskDefinition' = ResolvedTaskDefinition
  /\ UNCHANGED <<run, phase, pc, failedAt, lib, synthVars, prevLib, prevOk>>
  /\ UNCHANGED <<revisions, nextRevision, placeholderArn, physicalResourceId, responseArn>>

\* Every declared resource is done: the run succeeded.
Complete ==
  /\ phase = "deploy" /\ done = declared
  /\ phase' = "success"
  /\ prevLib' = lib /\ prevOk' = TRUE
  /\ UNCHANGED <<run, pc, failedAt, lib, synthVars, done, touched, cloudVars>>

Construct ==
  \/ NewCluster \/ NewParameters \/ Lookups \/ NewFileSystem
  \/ NewLoadBalancedService \/ Derive \/ NewCustomResource
  \/ GrantExecutionRole \/ GrantTaskRole \/ AllowFrom \/ AllowTo
  \/ OverrideTaskDefinition \/ ConfigureHealthCheck

Deploy ==
  \/ \E r \in Resources : LeaveUnchanged(r) \/ Reject(r) \/ Provision(r)
  \/ ProvisionTopology \/ RegisterTaskDefinition
  \/ ProvisionService \/ Complete

Next == (\E l \in LibInputs : StartRun(l)) \/ Construct \/ Deploy

NextOpen == (\E l \in OpenLibInputs : StartRun(l)) \/ Construct \/ Deploy

Spec == Init /\ [][Next]_vars

SpecOpen == Init /\ [][NextOpen]_vars


(***************************************************************************)
(* Properties.                                                             *)
(***************************************************************************)

Last(seq) == seq[Len(seq)]

RegisteredArns == {revisions[i].arn : i \in 1..Len(revisions)}

DescriptorOf(arn) == (CHOOSE r \in {revisions[i] : i \in 1..Len(revisions)} : r.arn = arn).descriptor

\* The descriptor mounts the volume at /var/jenkins_home and declares it.
HasVolumeMount(d) ==
  /\ \E i \in 1..Len(d.containerDefinitions) :
       \E m \in 1..Len(d.containerDefinitions[i].mountPoints) :
         /\ d.containerDefinitions[i].mountPoints[m].containerPath = "/var/jenkins_home"
         /\ d.containerDefinitions[i].mountPoints[m].sourceVolume = "efs"
  /\ \E v \in 1..Len(d.volumes) :
       /\ d.volumes[v].name = "efs"
       /\ d.volumes[v].efsVolumeConfiguration.transitEncryption = "ENABLED"

\* The connection rules in place.
DeployedRules == UNION {d.rule : d \in deployed["RuleFrom"] \cup deployed["RuleTo"]}

\* C1: whenever a run has ended successfully, the running service references
\* the ARN the custom resource's latest register call returned, that revision's
\* descriptor has the /var/jenkins_home mount and the EFS volume, and the
\* reference is not the generated (placeholder) task definition's revision.
C1_ServiceUsesRegisteredRevision ==
  phase = "success" =>
    /\ liveTaskDefinition = responseArn
    /\ liveTaskDefinition \in RegisteredArns
    /\ liveTaskDefinition = Last(revisions).arn
    /\ HasVolumeMount(DescriptorOf(liveTaskDefinition))
    /\ liveTaskDefinition # placeholderArn

\* A second run, with other log options, has ended successfully on the
\* revision its update registered.
C1_Witness ==
  /\ phase = "success" /\ run >= 2
  /\ Len(revisions) >= 2 /\ Last(revisions).event = "Update"
  /\ liveTaskDefinition = Last(revisions).arn

\* C7: whenever a run has ended successfully, the pass-role grants on the
\* execution role and on the task role to the principal that registers, and
\* the port-2049 rules from the file system to the service and from the
\* service to the file system, are all in place.
C7_AllGrantsOnSuccess ==
  phase = "success" =>
    /\ \A r \in lib.executionRole \cup lib.taskRole : PassRoleStatement(r) \in DeployedStatements
    /\ lib.executionRole # None /\ lib.taskRole # None
    /\ [from |-> "fileSystem", to |-> "service", protocol |-> "tcp", port |-> 2049]
         \in DeployedRules
    /\ [from |-> "service", to |-> "fileSystem", protocol |-> "tcp", port |-> 2049]
         \in DeployedRules

C7_Witness ==
  /\ phase = "success"
  /\ Cardinality({st \in DeployedStatements : st.action = "iam:PassRole"}) = 2
  /\ Cardinality(DeployedRules) = 2

\* The descriptor d against the generated task definition td, field by field.
FieldComplete(d, td) ==
  /\ Len(d.containerDefinitions) = Len(td.containers)
  /\ \A i \in 1..Len(td.containers) :
       LET c == d.containerDefinitions[i]
           g == td.containers[i]
       IN /\ c.mountPoints = g.mountPoints \o
                 << [containerPath |-> "/var/jenkins_home", sourceVolume |-> "efs",
                     readOnly |-> FALSE] >>
          /\ c.portMappings = g.portMappings
          /\ c.image = g.image
          /\ c.essential = g.essential
          /\ c.name = {g.containerName}
          /\ c.logConfiguration.logDriver = {g.logDriverConfig.logDriver}
          /\ c.logConfiguration.options = {g.logDriverConfig.options}
  /\ d.cpu = td.cpu
  /\ d.memory = td.memoryLimitMiB
  /\ d.executionRoleArn = {RoleArn(r) : r \in td.executionRole}
  /\ d.taskRoleArn = {RoleArn(r) : r \in td.taskRole}
  /\ d.family = td.family
  /\ d.networkMode = td.networkMode
  /\ d.requiresCompatibilities = td.compatibility

\* C6: the derived descriptor, and the descriptor the custom resource has
\* registered for this run, equal the generated task definition in container
\* count, port mappings, image, log configuration, cpu, memory, role ARNs,
\* family, network mode and compatibilities, and its mount points are the
\* generated ones plus exactly the /var/jenkins_home mount.
C6_DeriveFieldComplete ==
  /\ json # None => FieldComplete(The(json), The(taskDefinition))
  /\ "Register" \in done =>
       FieldComplete(Last(revisions).descriptor, The(taskDefinition))

C6_Witness ==
  /\ "Register" \in done /\ Len(revisions) = 2
  /\ Last(revisions).descriptor = The(json)
  /\ Last(revisions).descriptor # revisions[1].descriptor


\* C4: while the engine goes through a run whose inputs are those of the
\* preceding deployed run, which succeeded, no step changes a provisioned
\* resource, the registered revisions, the custom resource's output or the
\* service's task-definition reference.
C4_RerunChangesNothing ==
  [][(phase = "deploy" /\ prevOk /\ lib = prevLib) => UNCHANGED <<cloudVars, touched>>]_vars

\* A rerun with the preceding successful run's inputs has gone through every
\* declared resource.
C4_Witness ==
  /\ run >= 2 /\ phase = "deploy" /\ done = declared
  /\ prevOk /\ lib = prevLib
  /\ touched = {}
  /\ Len(revisions) = 1 /\ liveTaskDefinition = responseArn

\* The revisions only grow, by one fresh revision per register call, which
\* carries the derived descriptor and becomes the custom resource's output.
C8_Step ==
  \/ /\ revisions' = revisions
     /\ physicalResourceId' = physicalResourceId
     /\ responseArn' = responseArn
  \/ /\ Len(revisions') = Len(revisions) + 1
     /\ SubSeq(revisions', 1, Len(revisions)) = revisions
     /\ Last(revisions').arn \notin RegisteredArns \cup {placeholderArn, 0}
     /\ Last(revisions').descriptor = The(json)
     /\ physicalResourceId' = Last(revisions').arn
     /\ responseArn' = Last(revisions').arn

\* The recorded output is the latest revision's ARN; ARNs are distinct; the
\* declared update call is the declared create call.
C8_Output ==
  /\ physicalResourceId = (IF revisions = << >> THEN 0 ELSE Last(revisions).arn)
  /\ responseArn = physicalResourceId
  /\ \A i, j \in 1..Len(revisions) : revisions[i].arn = revisions[j].arn => i = j
  /\ \A c \in customTaskDefinition :
       /\ c.onUpdate = c.onCreate
       /\ c.onCreate.action = "registerTaskDefinition"
       /\ c.onCreate.parameters = The(json)
  /\ \A i \in 1..Len(revisions) :
       /\ revisions[i].event = (IF i = 1 THEN "Create" ELSE "Update")
       /\ DOMAIN revisions[i].descriptor = DOMAIN revisions[1].descriptor
       /\ HasVolumeMount(revisions[i].descriptor)

\* C8: over any sequence of create and update invocations of the custom
\* resource, each register call adds exactly one revision with a fresh ARN,
\* no revision is removed or altered, the update path issues the create path's
\* call, and the physical resource id and the response field are always the
\* ARN the latest register call returned.
C8_RevisionsGrowAndOutputTracks == []C8_Output /\ [][C8_Step]_vars

C8_Witness ==
  /\ Len(revisions) = 3
  /\ revisions[1].event = "Create" /\ revisions[3].event = "Update"
  /\ physicalResourceId = revisions[3].arn

\* A statement of the register or grant section threw: the override has not
\* been applied and the engine has provisioned nothing in this run.
ConstructorStops ==
  failedAt \in {"customResource", "grantExec", "grantTask", "allowFrom", "allowTo"} =>
    /\ phase = "failed"
    /\ serviceTaskDefinition # "custom"
    /\ done = {}

\* The register call or the principal's policy failed at deploy time: the
\* engine has not touched the service in this run.
RegisterFailureStopsService ==
  failedAt \in {"Register", "Policy"} => phase = "failed" /\ "Service" \notin touched

\* A connection rule failed at deploy time: the engine has not touched the
\* service in this run.
RuleFailureStopsService ==
  failedAt \in {"RuleFrom", "RuleTo"} => phase = "failed" /\ "Service" \notin touched

\* Whatever failed, the run is failed, and a successful run had no failure.
FailureIsFatal ==
  /\ failedAt # "none" => phase = "failed"
  /\ phase = "success" => failedAt = "none" /\ done = declared /\ pc = "done"

\* The service's reference is none, or a revision the custom resource
\* registered and no later register call has superseded, unless the service
\* has yet to be gone through in this run.
ReferenceRegisteredAndCurrent ==
  /\ liveTaskDefinition # 0 => liveTaskDefinition \in RegisteredArns
  /\ "Service" \in touched => liveTaskDefinition = Last(revisions).arn

\* C2: if the register call or any part of the grant step (either pass-role
\* grant, either port-2049 rule) fails, the service is not moved to a new
\* revision in that run, its reference is never a stale or unregistered
\* revision, and the run ends failed.
C2_NoOverrideAfterFailure ==
  /\ ConstructorStops
  /\ RegisterFailureStopsService
  /\ RuleFailureStopsService
  /\ FailureIsFatal
  /\ ReferenceRegisteredAndCurrent

\* The part of C2 that holds: everything but a rule failing after the service
\* was provisioned.
FailureHandlingWithoutRules ==
  /\ ConstructorStops
  /\ RegisterFailureStopsService
  /\ FailureIsFatal
  /\ ReferenceRegisteredAndCurrent

\* C3: whenever the running service references a revision registered by the
\* custom resource, the register call has returned it, the pass-role grants
\* are deployed and both port-2049 rules are in place.
C3_GrantsBeforeNewRevisionRuns ==
  liveTaskDefinition \in RegisteredArns =>
    /\ deployed["Register"] # None
    /\ \A r \in lib.executionRole \cup lib.taskRole : PassRoleStatement(r) \in DeployedStatements
    /\ AllowFromRule \in DeployedRules
    /\ AllowToRule \in DeployedRules

\* The part of C3 the references do order: the register call and the
\* pass-role grants precede the service's use of the revision.
C3_RegisterAndPassRoleFirst ==
  liveTaskDefinition \in RegisteredArns =>
    /\ deployed["Register"] # None
    /\ PassRoleStatement("executionRole") \in DeployedStatements
    /\ PassRoleStatement("taskRole") \in DeployedStatements


C9_MissingChildSkipsOverride ==
  (phase # "idle" /\ "Service" \notin lib.serviceChildren) =>
    /\ failedAt # "override"
    /\ serviceTaskDefinition # "custom"
    /\ Past("override") => serviceTaskDefinition = "placeholder"
    /\ phase = "success" =>
         /\ liveTaskDefinition = placeholderArn
         /\ revisions # << >> /\ responseArn = Last(revisions).arn
         /\ HasVolumeMount(Last(revisions).descriptor)
         /\ liveTaskDefinition # responseArn
         /\ "Register" \in done

C9_Witness ==
  /\ "Service" \notin lib.serviceChildren /\ phase = "success"
  /\ liveTaskDefinition = placeholderArn /\ responseArn \in RegisteredArns

\* C10: in a run whose generated task definition has no execution role, the
\* execution-role grant is skipped without throwing, the descriptor is derived
\* and registered without executionRoleArn, and the constructor goes on to
\* the override; in every run the task-role grant is made once its statement
\* has been passed.
C10_AbsentExecutionRoleSkipsGrant ==
  /\ (phase # "idle" /\ lib.executionRole = None) =>
       /\ failedAt # "grantExec"
       /\ \A st \in statements : st.action = "iam:PassRole" => st.resource = RoleArn("taskRole")
       /\ \A d \in json : d.executionRoleArn = None
       /\ "Register" \in done => Last(revisions).descriptor.executionRoleArn = None
       /\ (Past("override") /\ "Service" \in children) => serviceTaskDefinition = "custom"
  /\ Past("grantTask") => PassRoleStatement("taskRole") \in statements

C10_Witness ==
  /\ lib.executionRole = None /\ phase = "success"
  /\ serviceTaskDefinition = "custom" /\ liveTaskDefinition = responseArn
  /\ Last(revisions).descriptor.executionRoleArn = None

====
